---- MODULE Spec2Model ----
(***************************************************************************)
(* A model of the sarracenia flow callbacks:                               *)
(*   - sarra.flowcb.load_library          (per-stage option resolution)    *)
(*   - sarra.flowcb.msg.fdelay.FDelay     (the delay stage)                *)
(*   - sarra.plugin.accel_wget.ACCEL_WGET (the accelerated download stage) *)
(*   - sarra.flow.report.Report           (the stages of the report flow)  *)
(*   - sarracenia.examples.moth_http_retrieval (the example consumer)      *)
(* Time is counted in whole seconds, file modification times are the       *)
(* ST_MTIME field that os.stat returns.                                    *)
(***************************************************************************)
EXTENDS Integers, Sequences, FiniteSets, TLC

VARIABLES
    now,        \* the wall clock read by nowflt()
    files,      \* the file system: path -> NoFile or File(ST_MTIME, st_size)
    msg,        \* the message objects of the batch: id -> fields
    incoming,   \* worklist.incoming  (sequence of message ids)
    ok,         \* worklist.ok
    rejected,   \* worklist.rejected
    failed,     \* worklist.failed
    pc,         \* position of the running on_messages call, "idle" between calls
    idx,        \* FDelay.on_messages: position of the for loop in incoming
    outgoing,   \* FDelay.on_messages: the local list outgoing
    ran,        \* on_messages calls made on this batch: sequence of [stage, how]
    heap,       \* the option objects: reference -> attributes
    stages,     \* the stages load_library has instantiated: sequence of [cls, path, o, got]
    last,       \* the latest do_get or check_results call, its message <<m>> and its outcome
    cwd,        \* the process working directory (os.chdir)
    flowobj,    \* the flow object: its class and its plugins['load']
    consumer    \* the example consumer: its position, count, batch and what it did

vars == <<now, files, msg, incoming, ok, rejected, failed, pc, idx, outgoing,
          ran, heap, stages, last, cwd, flowobj, consumer>>

flowVars == <<now, files, msg, incoming, ok, rejected, failed, pc, idx, outgoing, ran>>
loadVars == <<heap, stages>>
getVars  == <<last, cwd>>
appVars  == <<flowobj, consumer>>

----------------------------------------------------------------------------
(* Bounds of the model *)

MaxMsgs  == 2    \* messages in a batch
MaxSolo  == 1    \* messages in a batch of SpecDelay
MaxTime  == 3    \* the clock runs from 0 to MaxTime
MaxStages == 2   \* stages loaded by a flow of SpecLoad

----------------------------------------------------------------------------
(* Generic helpers *)

Range(s) == {s[i] : i \in 1..Len(s)}

Count(s, x) == Cardinality({i \in 1..Len(s) : s[i] = x})

----------------------------------------------------------------------------
(* The flow object and the example consumer before they act *)

\* a flow as Flow's constructor leaves it, with the stages configured to load
Flow(load) == [cls |-> "Flow", load |-> load]

\* moth_http_retrieval.py lines 20-22: subscribed, count = 0, nothing fetched
Started == [pc |-> "while", count |-> 0, messages |-> <<>>, k |-> 1, fetched |-> 0,
            retrieved |-> {}, acked |-> <<>>]

----------------------------------------------------------------------------
(* Messages *)

\* a path with no file, and a file with its ST_MTIME and st_size
NoFile == [exists |-> FALSE, mtime |-> 0, st_size |-> 0]

File(t, sz) == [exists |-> TRUE, mtime |-> t, st_size |-> sz]

\* new_dir values: one containing '/cfr/', one not
Dirs == {"/cfr/in", "/out"}

\* the files a message of the model can refer to
Paths == {<<"/cfr/in", "p">>, <<"/out", "p">>, <<".", "p">>}

\* pubTime is text; the model writes a time stamp as two decimal digits of seconds
TimeStr(t) == <<t \div 10, t % 10>>

timestr2flt(s) == s[1] * 10 + s[2]

nowflt == now

\* '/cfr/' in m['new_dir']
HasCfr(d) == d = "/cfr/in"

os_path_join(d, f) == <<d, f>>

\* the file FDelay looks at for message record m (fdelay.py lines 72-75)
FileOf(m) == IF HasCfr(m.new_dir) THEN os_path_join(m.new_dir, m.new_file)
             ELSE <<".", m.relPath>>

os_path_exists(f) == files[f].exists

\* isRetry and _deleteOnPost as a message carries them when it is gathered:
\* a fresh message, a message taken from the retry queue, a message FDelay failed before
RetryMarks == { [isRetry |-> "unset", dop |-> <<>>],
                [isRetry |-> "True",  dop |-> <<"isRetry">>],
                [isRetry |-> "False", dop |-> <<"isRetry">>] }

----------------------------------------------------------------------------
(* Option values and option objects *)

\* An option value: a number, a text (its characters), or a one-element list of either
Int_(n)     == [t |-> "num", n |-> n, s |-> <<>>]
Bool(b)     == [t |-> "bool", n |-> IF b THEN 1 ELSE 0, s |-> <<>>]
Str(chars)  == [t |-> "str", n |-> 0, s |-> chars]
ListOf(v)   == [t |-> IF v.t = "num" THEN "list_num" ELSE "list_str", n |-> v.n, s |-> v.s]

IsList(v)   == v.t \in {"list_num", "list_str"}
IsNum(v)    == v.t = "num"
IsStr(v)    == v.t = "str"

\* the truth value of v in a condition
Truthy(v)   == IF v.t \in {"num", "bool"} THEN v.n # 0 ELSE v.s # <<>>

\* v[0] of a list or of a text
First(v) == CASE v.t = "list_num" -> Int_(v.n)
              [] v.t = "list_str" -> Str(v.s)
              [] v.t = "str"      -> Str(<<v.s[1]>>)
              [] OTHER            -> v

DigitVal(c) == CASE c = "0" -> 0 [] c = "1" -> 1 [] c = "2" -> 2 [] c = "3" -> 3
                 [] c = "4" -> 4 [] c = "5" -> 5 [] c = "6" -> 6 [] c = "7" -> 7
                 [] c = "8" -> 8 [] c = "9" -> 9 [] OTHER -> -1

IsDigit(c) == DigitVal(c) >= 0

RECURSIVE DigitsVal(_)
DigitsVal(cs) == IF cs = <<>> THEN 0
                 ELSE DigitsVal(SubSeq(cs, 1, Len(cs) - 1)) * 10 + DigitVal(cs[Len(cs)])

\* float(text) for a text of decimal digits
float(v) == Int_(DigitsVal(v.s))

\* hasattr(o, k), getattr, setattr on the attributes of an option object
hasattr(a, k) == k \in DOMAIN a

setattr(a, k, v) == (k :> v) @@ a

\* the qualified names stages are loaded under
FDelayPath == "sarra.flowcb.msg.fdelay.FDelay"
AccelPath  == "sarra.plugin.accel_wget.ACCEL_WGET"
FlowCBPath == "sarra.flowcb.FlowCB"

FactoryPaths == {FDelayPath, AccelPath, FlowCBPath}

----------------------------------------------------------------------------
(* FDelay.__init__, fdelay.py lines 23-42, on the attributes a of self.o *)

\* lines 32-33
InitMsgFdelay(a) == IF hasattr(a, "msg_fdelay") THEN setattr(a, "fdelay", a.msg_fdelay) ELSE a

\* lines 35-36
InitDefault(a) == IF ~ hasattr(a, "fdelay") THEN setattr(a, "fdelay", Int_(60)) ELSE a

\* lines 38-39
InitList(a) == IF IsList(a.fdelay) THEN setattr(a, "fdelay", First(a.fdelay)) ELSE a

\* lines 41-42
InitFloat(a) == IF ~ IsNum(a.fdelay) THEN setattr(a, "fdelay", float(First(a.fdelay))) ELSE a

FDelay_init(a) == InitFloat(InitList(InitDefault(InitMsgFdelay(a))))

----------------------------------------------------------------------------
(* load_library, flowcb/__init__.py lines 239-256 *)

\* An option object: its plain attributes, and its attribute 'settings' when it has one
\* (a dictionary: qualified stage name -> option name -> value)
Options(a, has, st) == [attrs |-> a, hasSettings |-> has, settings |-> st]

\* the reference of the flow-wide options object
FlowRef == 1

\* a mutation of Overlay: the settings are looked up and never found
Overlay_skip(a, settings, factory_path) == a

\* lines 249-251: the settings of factory_path laid over the copy
Overlay(a, settings, factory_path) ==
    IF factory_path \in DOMAIN settings
    THEN [k \in DOMAIN a \cup DOMAIN settings[factory_path] |->
             IF k \in DOMAIN settings[factory_path] THEN settings[factory_path][k] ELSE a[k]]
    ELSE a

\* lines 246-253: the heap after resolving opt, and the reference of opt
\* (copy.deepcopy makes a new object, opt = options does not)
Resolve(h, factory_path) ==
    LET options == h[FlowRef] IN
    IF options.hasSettings
    THEN [heap |-> Append(h, [options EXCEPT
                      !.attrs = Overlay(options.attrs, options.settings, factory_path)]),
          o |-> Len(h) + 1]
    ELSE [heap |-> h, o |-> FlowRef]

\* line 242-244: the class a qualified name stands for
ClassOf(factory_path) ==
    CASE factory_path = FDelayPath -> "FDelay"
      [] factory_path = AccelPath  -> "ACCEL_WGET"
      [] OTHER                     -> "FlowCB"

\* line 255, class_(opt): what the constructor does to the attributes of opt
Construct(cls, a) == IF cls = "FDelay" THEN FDelay_init(a) ELSE a

\* the whole of load_library: the new heap and the stage made
load_library(h, factory_path) ==
    LET r   == Resolve(h, factory_path)
        cls == ClassOf(factory_path)
        got == r.heap[r.o].attrs
    IN  [heap  |-> [r.heap EXCEPT ![r.o].attrs = Construct(cls, @)],
         stage |-> [cls |-> cls, path |-> factory_path, o |-> r.o, got |-> got]]

----------------------------------------------------------------------------
(* ACCEL_WGET, accel_wget.py *)

\* sarra.chunksize_from_str: leading digits times the unit of the suffix
Unit(c) == CASE c = "k" -> 1024 [] c = "M" -> 1024 * 1024 [] OTHER -> 1

chunksize_from_str(v) ==
    LET cs == v.s
        digits == SelectSeq(cs, IsDigit)
        suffix == cs[Len(cs)]
    IN  DigitsVal(digits) * (IF IsDigit(suffix) THEN 1 ELSE Unit(suffix))

\* a mutation of on_start: the three options are set whether configured or not
on_start_reset(a, scheme) ==
    setattr(setattr(setattr(a, "accel_wget_command", Str(<<"/usr/bin/wget">>)),
                    "accel_wget_threshold", Int_(1024 * 1024)),
            "accel_wget_protocol", Str(<<scheme>>))

\* lines 61-74, on the attributes a of self.o; scheme is self.scheme (line 55)
on_start(a, scheme) ==
    LET a1 == IF ~ hasattr(a, "accel_wget_command")
              THEN setattr(a, "accel_wget_command", Str(<<"/usr/bin/wget">>)) ELSE a
        a2 == IF ~ hasattr(a1, "accel_wget_threshold")
              THEN setattr(a1, "accel_wget_threshold", Str(<<"1", "M">>)) ELSE a1
        a3 == IF ~ hasattr(a2, "accel_wget_protocol")
              THEN setattr(a2, "accel_wget_protocol", Str(<<scheme>>)) ELSE a2
    IN  IF IsStr(a3.accel_wget_threshold)
        THEN setattr(a3, "accel_wget_threshold", Int_(chunksize_from_str(a3.accel_wget_threshold)))
        ELSE a3

\* a message without 'blocks', and the blocks descriptor of a partitioned message
NoBlocks == [present |-> FALSE, size |-> 0]

Blocks(sz) == [present |-> TRUE, size |-> sz]

\* lines 106-110
get_size(m) == IF m.blocks.present THEN m.blocks.size ELSE m.size

----------------------------------------------------------------------------
(* FDelay.on_messages, fdelay.py lines 44-99 *)

\* self.o.fdelay of the FDelay stage (the first stage of the flow)
fdelay == heap[stages[1].o].attrs.fdelay.n

\* a mutation of IsRemove: the test never recognises a 'remove' message
IsRemove_never(m) == FALSE

\* a mutation of IsRemove: a message that failed before is treated as a removal
IsRemove_retried(m) == m.method = "remove" \/ m.isRetry = "False"

\* line 52: m['integrity']['method'] == 'remove'
IsRemove(m) == m.method = "remove"

\* a mutation of MarkNotRetry: the flag is cleared but not listed for deletion
MarkNotRetry_unlisted(m) == [m EXCEPT !.isRetry = "False"]

\* a mutation of MarkNotRetry: 'isRetry' is listed without looking for it
MarkNotRetry_again(m) ==
    [m EXCEPT !.isRetry = "False", !._deleteOnPost = Append(@, "isRetry")]

\* a mutation of MarkNotRetry: a failed message is stamped with the time of the call
MarkNotRetry_restamp(m) ==
    [m EXCEPT !.isRetry = "False",
              !._deleteOnPost = IF "isRetry" \in Range(@) THEN @ ELSE Append(@, "isRetry"),
              !.pubTime = TimeStr(now)]

\* lines 64-66
MarkNotRetry(m) ==
    [m EXCEPT !.isRetry = "False",
              !._deleteOnPost = IF "isRetry" \in Range(@) THEN @ ELSE Append(@, "isRetry")]

\* a mutation of TooYoung: an age equal to the delay still counts as too young
TooYoung_inclusive(elapsedtime) == elapsedtime <= fdelay

\* line 60 and line 85: elapsedtime < self.o.fdelay
TooYoung(elapsedtime) == elapsedtime < fdelay

\* lines 45-50: the call starts
FDelay_call ==
    /\ pc = "idle"
    /\ "FDelay" \notin {ran[i].stage : i \in 1..Len(ran)}
    /\ pc' = "fd_loop"
    /\ idx' = 1
    /\ outgoing' = <<>>
    /\ UNCHANGED <<now, files, msg, incoming, ok, rejected, failed, ran>>
    /\ UNCHANGED <<loadVars, getVars, appVars>>

\* lines 51-56: a 'remove' message
FDelay_remove ==
    /\ pc = "fd_loop"
    /\ idx <= Len(incoming)
    /\ IsRemove(msg[incoming[idx]])
    /\ rejected' = Append(rejected, incoming[idx])
    /\ idx' = idx + 1
    /\ UNCHANGED <<now, files, msg, incoming, ok, failed, pc, outgoing, ran>>
    /\ UNCHANGED <<loadVars, getVars, appVars>>

\* lines 58-69: the message delay test
FDelay_pubtime ==
    /\ pc = "fd_loop"
    /\ idx <= Len(incoming)
    /\ ~ IsRemove(msg[incoming[idx]])
    /\ LET m == incoming[idx]
           elapsedtime == nowflt - timestr2flt(msg[m].pubTime)
       IN  IF TooYoung(elapsedtime)
           THEN /\ msg' = [msg EXCEPT ![m] = MarkNotRetry(@)]
                /\ failed' = Append(failed, m)
                /\ idx' = idx + 1
                /\ pc' = pc
           ELSE /\ pc' = "fd_exists"
                /\ UNCHANGED <<msg, failed, idx>>
    /\ UNCHANGED <<now, files, incoming, ok, rejected, outgoing, ran>>
    /\ UNCHANGED <<loadVars, getVars, appVars>>

\* lines 71-80: the file must exist
FDelay_exists ==
    /\ pc = "fd_exists"
    /\ LET m == incoming[idx]
           f == FileOf(msg[m])
       IN  IF ~ os_path_exists(f)
           THEN /\ failed' = Append(failed, m)
                /\ idx' = idx + 1
                /\ pc' = "fd_loop"
           ELSE /\ pc' = "fd_stat"
                /\ UNCHANGED <<failed, idx>>
    /\ UNCHANGED <<now, files, msg, incoming, ok, rejected, outgoing, ran>>
    /\ UNCHANGED <<loadVars, getVars, appVars>>

\* lines 82-97: the file delay test; os.stat raises when the file is gone
FDelay_stat ==
    /\ pc = "fd_stat"
    /\ LET m == incoming[idx]
           f == FileOf(msg[m])
       IN  IF ~ files[f].exists
           THEN /\ pc' = "idle"
                /\ ran' = Append(ran, [stage |-> "FDelay", how |-> "raised"])
                /\ UNCHANGED <<msg, failed, outgoing, idx>>
           ELSE LET filetime == files[f].mtime
                    elapsedtime == nowflt - filetime
                IN  /\ IF TooYoung(elapsedtime)
                       THEN /\ msg' = [msg EXCEPT ![m] = MarkNotRetry(@)]
                            /\ failed' = Append(failed, m)
                            /\ UNCHANGED outgoing
                       ELSE /\ outgoing' = Append(outgoing, m)
                            /\ UNCHANGED <<msg, failed>>
                    /\ idx' = idx + 1
                    /\ pc' = "fd_loop"
                    /\ UNCHANGED ran
    /\ UNCHANGED <<now, files, incoming, ok, rejected>>
    /\ UNCHANGED <<loadVars, getVars, appVars>>

\* a mutation of FDelay_return: the call ends without line 99
FDelay_return_keep ==
    /\ pc = "fd_loop"
    /\ idx > Len(incoming)
    /\ pc' = "idle"
    /\ ran' = Append(ran, [stage |-> "FDelay", how |-> "returned"])
    /\ UNCHANGED <<now, files, msg, incoming, ok, rejected, failed, idx, outgoing>>
    /\ UNCHANGED <<loadVars, getVars, appVars>>

\* line 99: the loop is over, worklist.incoming = outgoing
FDelay_return ==
    /\ pc = "fd_loop"
    /\ idx > Len(incoming)
    /\ incoming' = outgoing
    /\ pc' = "idle"
    /\ ran' = Append(ran, [stage |-> "FDelay", how |-> "returned"])
    /\ UNCHANGED <<now, files, msg, ok, rejected, failed, idx, outgoing>>
    /\ UNCHANGED <<loadVars, getVars, appVars>>

----------------------------------------------------------------------------
(* ACCEL_WGET.on_messages, accel_wget.py lines 76-83 *)

\* self.o of the ACCEL_WGET stage (the second stage of the flow)
accel_o == heap[stages[2].o].attrs

\* lines 79-83 for one message: nothing but a log line is produced
AccelLook(m) == m

ACCEL_WGET_on_messages ==
    /\ pc = "idle"
    /\ "ACCEL_WGET" \notin {ran[i].stage : i \in 1..Len(ran)}
    /\ msg' = [i \in DOMAIN msg |-> IF i \in Range(incoming) THEN AccelLook(msg[i]) ELSE msg[i]]
    /\ ran' = Append(ran, [stage |-> "ACCEL_WGET", how |-> "returned"])
    /\ UNCHANGED <<now, files, incoming, ok, rejected, failed, pc, idx, outgoing>>
    /\ UNCHANGED <<loadVars, getVars, appVars>>

----------------------------------------------------------------------------
(* ACCEL_WGET.do_get and check_results, accel_wget.py lines 85-133 *)

\* no call made yet
NoCall == [op |-> "none", m |-> <<>>, length |-> 0, path |-> "none", rc |-> 0,
           reports |-> <<>>, kind |-> "none", value |-> Int_(0)]

DigitChar == <<"0", "1", "2", "3", "4", "5", "6", "7", "8", "9">>

\* the decimal text of a number, as re.match hands back a group
RECURSIVE Digits(_)
Digits(n) == IF n < 10 THEN <<DigitChar[n + 1]>>
             ELSE Append(Digits(n \div 10), DigitChar[(n % 10) + 1])

\* A finished process p: its returncode, and its stderr: NoPipe when Popen was
\* not given stderr=PIPE (p.stderr is None), else the text read from the pipe,
\* of which the model keeps the byte count of a leading "[count/total]", if any
NoPipe == [pipe |-> FALSE, progress |-> <<>>]

Pipe(progress) == [pipe |-> TRUE, progress |-> progress]

Process(rc, stderr) == [returncode |-> rc, stderr |-> stderr]

\* a mutation of Reports: the reportback option is not consulted
Reports_always(a, p) == IF p.returncode # 0 THEN <<499>> ELSE <<201>>

\* lines 117-121: the reports made
Reports(a, p) ==
    LET reportback == hasattr(a, "reportback") /\ Truthy(a.reportback)
    IN  IF p.returncode # 0
        THEN (IF reportback THEN <<499>> ELSE <<>>)
        ELSE (IF reportback THEN <<201>> ELSE <<>>)

\* lines 122-133: the size returned; reading the stderr of a process without
\* a pipe raises AttributeError
Size(p, file) ==
    IF ~ p.stderr.pipe
    THEN [kind |-> "raised", value |-> Int_(0)]
    ELSE IF p.stderr.progress # <<>>
    THEN [kind |-> "returned", value |-> Str(Digits(p.stderr.progress[1]))]
    ELSE [kind |-> "returned", value |-> Int_(IF file.exists THEN file.st_size ELSE 0)]

\* lines 112-133, with self.o's attributes a and fct(filepath) = file
check_results(a, p, file) ==
    LET r == Size(p, file)
    IN  [reports |-> Reports(a, p), kind |-> r.kind, value |-> r.value]

\* a mutation of UseBuiltin: the size of the whole file is compared, blocks or not
UseBuiltin_whole(m, threshold) == m.size < threshold

\* line 93
UseBuiltin(m, threshold) == get_size(m) < threshold

\* the length asked of do_get for message record m: the whole file, or its block
LengthOf(m) == get_size(m)

\* line 94: the built-in Https.get moves all the bytes asked for, or fewer
Https_get(length) == {length, 0}

\* line 93-94: a message below the threshold goes to the built-in get
do_get_builtin(m) ==
    /\ UseBuiltin(m, accel_o.accel_wget_threshold.n)
    /\ \E n \in Https_get(LengthOf(m)) :
          last' = [op |-> "do_get", m |-> <<m>>, length |-> LengthOf(m), path |-> "builtin",
                   rc |-> 0, reports |-> <<>>, kind |-> "returned", value |-> Int_(n)]
    /\ UNCHANGED <<flowVars, loadVars, cwd, appVars>>

\* lines 95-104: the external command is run in new_dir; when it succeeds it has
\* written the file, and check_results is handed a process without a stderr pipe
do_get_accel(m) ==
    /\ ~ UseBuiltin(m, accel_o.accel_wget_threshold.n)
    /\ cwd' = m.new_dir
    /\ \E rc \in {0, 1} :
          LET f == os_path_join(m.new_dir, m.new_file)
              p == Process(rc, NoPipe)
          IN  /\ files' = IF rc = 0 THEN [files EXCEPT ![f] = File(now, m.size)] ELSE files
              /\ LET r == check_results(accel_o, p, files'[f])
                 IN  last' = [op |-> "do_get", m |-> <<m>>, length |-> LengthOf(m),
                              path |-> "accel", rc |-> rc, reports |-> r.reports,
                              kind |-> r.kind, value |-> r.value]
    /\ UNCHANGED <<now, msg, incoming, ok, rejected, failed, pc, idx, outgoing, ran>>
    /\ UNCHANGED <<loadVars, appVars>>

\* the stderr texts of the model for a transfer of length bytes
Stderrs(length) == {NoPipe, Pipe(<<>>), Pipe(<<length>>), Pipe(<<0>>)}

\* check_results called with a finished process for message m
check_results_call(m) ==
    /\ \E rc \in {0, 1}, e \in Stderrs(LengthOf(m)) :
          LET f == os_path_join(m.new_dir, m.new_file)
              r == check_results(accel_o, Process(rc, e), files[f])
          IN  last' = [op |-> "check_results", m |-> <<m>>, length |-> LengthOf(m),
                       path |-> "accel", rc |-> rc, reports |-> r.reports,
                       kind |-> r.kind, value |-> r.value]
    /\ UNCHANGED <<flowVars, loadVars, cwd, appVars>>

----------------------------------------------------------------------------
(* The environment of a flow: the clock and the writers of the files *)

Tick ==
    /\ now < MaxTime
    /\ now' = now + 1
    /\ UNCHANGED <<files, msg, incoming, ok, rejected, failed, pc, idx, outgoing, ran>>
    /\ UNCHANGED <<loadVars, getVars, appVars>>

\* the files the messages of the batch refer to
BatchFiles == {FileOf(msg[i]) : i \in DOMAIN msg}

\* a writer creates or rewrites file f
WriteFile(f) ==
    /\ files' = [files EXCEPT ![f] = File(now, 500000)]
    /\ files' # files
    /\ UNCHANGED <<now, msg, incoming, ok, rejected, failed, pc, idx, outgoing, ran>>
    /\ UNCHANGED <<loadVars, getVars, appVars>>

RemoveFile(f) ==
    /\ files[f].exists
    /\ files' = [files EXCEPT ![f] = NoFile]
    /\ UNCHANGED <<now, msg, incoming, ok, rejected, failed, pc, idx, outgoing, ran>>
    /\ UNCHANGED <<loadVars, getVars, appVars>>

----------------------------------------------------------------------------
(* The flow: a batch in worklist.incoming, the FDelay and ACCEL_WGET stages loaded *)

\* a message as it is gathered
Message(method, t, marks, new_dir, size, blocks) ==
    [method |-> method, pubTime |-> TimeStr(t), isRetry |-> marks.isRetry,
     _deleteOnPost |-> marks.dop, new_dir |-> new_dir, new_file |-> "p", relPath |-> "p",
     size |-> size, blocks |-> blocks, scheme |-> "http"]

Fresh == [isRetry |-> "unset", dop |-> <<>>]

\* the messages of a batch of SpecDelay: every combination of the fields FDelay reads
FlowMessages ==
    { Message(me, t, r, d, 500000, NoBlocks) :
      me \in {"remove", "md5"}, t \in 0..1, r \in RetryMarks, d \in Dirs }

\* the messages of a batch of Spec: fresh messages published at time 0, a removal
\* and files of either size in either directory
FreshMessages ==
    { Message("remove", 0, Fresh, "/out", 500000, NoBlocks) } \cup
    { Message("md5", 0, Fresh, d, sz, NoBlocks) : d \in Dirs, sz \in {500000, 2000000} }

\* the flow options: settings give the FDelay stage its delay, and the
\* ACCEL_WGET stage the options acc
FlowOptions(d, acc) ==
    Options([logLevel |-> Str(<<"info">>)], TRUE,
            (FDelayPath :> [fdelay |-> d]) @@ (AccelPath :> acc))

\* the heap and the stages after loading FDelay, then ACCEL_WGET, and on_start
FlowLoaded(d, acc) ==
    LET l1 == load_library(<<FlowOptions(d, acc)>>, FDelayPath)
        l2 == load_library(l1.heap, AccelPath)
    IN  [heap   |-> [l2.heap EXCEPT ![l2.stage.o].attrs = on_start(@, "http")],
         stages |-> <<l1.stage, l2.stage>>]

FlowDelays == {Int_(1), ListOf(Int_(2))}

\* a batch of n messages drawn from catalogue, with delay option d
FlowInit(n, catalogue, d) ==
    /\ now = 0
    /\ files = [f \in Paths |-> NoFile]
    /\ msg \in [1..n -> catalogue]
    /\ incoming = [i \in 1..n |-> i]
    /\ ok = <<>> /\ rejected = <<>> /\ failed = <<>>
    /\ pc = "idle" /\ idx = 1 /\ outgoing = <<>> /\ ran = <<>>
    /\ LET l == FlowLoaded(d, <<>>) IN heap = l.heap /\ stages = l.stages
    /\ last = NoCall /\ cwd = "."
    /\ flowobj = Flow(<<>>) /\ consumer = Started

\* batches of up to MaxMsgs fresh messages
Init == \E n \in 0..MaxMsgs : FlowInit(n, FreshMessages, ListOf(Int_(2)))

\* short batches of messages of every kind, under either delay
InitDelay == \E n \in 0..MaxSolo, d \in FlowDelays : FlowInit(n, FlowMessages, d)

Next ==
    \/ FDelay_call
    \/ FDelay_remove
    \/ FDelay_pubtime
    \/ FDelay_exists
    \/ FDelay_stat
    \/ FDelay_return
    \/ ACCEL_WGET_on_messages
    \/ Tick
    \/ \E f \in BatchFiles : WriteFile(f)
    \/ \E f \in BatchFiles : RemoveFile(f)

Spec == Init /\ [][Next]_vars

SpecDelay == InitDelay /\ [][Next]_vars

----------------------------------------------------------------------------
(* Transfers: the ACCEL_WGET stage started, do_get called with messages of     *)
(* every size                                                                 *)

GetMessages ==
    { Message(me, 0, Fresh, "/out", sb[1], sb[2]) :
      me \in {"md5", "link"},
      sb \in {<<500000, NoBlocks>>, <<2000000, NoBlocks>>, <<2000000, Blocks(500000)>>} }

\* the options of the ACCEL_WGET stage: a threshold or none, reportback or none
AccelSettings ==
    { <<>>, [accel_wget_threshold |-> Int_(500000)],
      [reportback |-> Bool(TRUE)], [reportback |-> Bool(FALSE)],
      [accel_wget_threshold |-> Str(<<"1", "M">>), reportback |-> Bool(TRUE)] }

InitGet ==
    /\ now = 0
    /\ \E old \in {NoFile, File(0, 500000), File(0, 2000000)} :
          files = [f \in Paths |-> IF f = <<"/out", "p">> THEN old ELSE NoFile]
    /\ msg = <<>> /\ incoming = <<>>
    /\ ok = <<>> /\ rejected = <<>> /\ failed = <<>>
    /\ pc = "idle" /\ idx = 1 /\ outgoing = <<>> /\ ran = <<>>
    /\ \E acc \in AccelSettings :
          LET l == FlowLoaded(Int_(2), acc) IN heap = l.heap /\ stages = l.stages
    /\ last = NoCall /\ cwd = "."
    /\ flowobj = Flow(<<>>) /\ consumer = Started

NextGet ==
    \/ \E m \in GetMessages : do_get_builtin(m)
    \/ \E m \in GetMessages : do_get_accel(m)
    \/ \E m \in GetMessages : check_results_call(m)

SpecGet == InitGet /\ [][NextGet]_vars

----------------------------------------------------------------------------
(* Loading stages from flow options of every shape *)

\* the flow-wide attributes
FlowAttrs ==
    { [logLevel |-> Str(<<"info">>)],
      [logLevel |-> Str(<<"info">>), fdelay |-> Int_(30)],
      [logLevel |-> Str(<<"info">>), accel_wget_threshold |-> Str(<<"6", "M">>)] }

\* the options set for one stage
StageSettings ==
    { [fdelay |-> Int_(5)],
      [fdelay |-> ListOf(Int_(7)), accel_wget_threshold |-> Int_(100)],
      [accel_wget_command |-> Str(<<"/usr/bin/wget -p">>)],
      [fdelay |-> Str(<<"3", "0">>)],
      [msg_fdelay |-> ListOf(Str(<<"7">>)), fdelay |-> Int_(5)] }

\* the settings dictionaries: options for some of the stages
SettingsChoices ==
    UNION { [ps -> StageSettings] : ps \in SUBSET {FDelayPath, AccelPath} }

InitLoad ==
    /\ now = 0
    /\ files = [f \in Paths |-> NoFile]
    /\ msg = <<>> /\ incoming = <<>>
    /\ ok = <<>> /\ rejected = <<>> /\ failed = <<>>
    /\ pc = "idle" /\ idx = 1 /\ outgoing = <<>> /\ ran = <<>>
    /\ \E a \in FlowAttrs :
          \/ heap = <<Options(a, FALSE, <<>>)>>
          \/ \E st \in SettingsChoices : heap = <<Options(a, TRUE, st)>>
    /\ stages = <<>>
    /\ last = NoCall /\ cwd = "."
    /\ flowobj = Flow(<<>>) /\ consumer = Started

\* the flow loads one more stage
Load(factory_path) ==
    /\ Len(stages) < MaxStages
    /\ LET l == load_library(heap, factory_path)
       IN  /\ heap' = l.heap
           /\ stages' = Append(stages, l.stage)
    /\ UNCHANGED <<flowVars, getVars, appVars>>

\* the flow starts stage i (only ACCEL_WGET has an on_start)
Start(i) ==
    /\ stages[i].cls = "ACCEL_WGET"
    /\ heap' = [heap EXCEPT ![stages[i].o].attrs = on_start(@, "http")]
    /\ UNCHANGED <<flowVars, getVars, stages, appVars>>

NextLoad ==
    \/ \E factory_path \in FactoryPaths : Load(factory_path)
    \/ \E i \in DOMAIN stages : Start(i)

SpecLoad == InitLoad /\ [][NextLoad]_vars

----------------------------------------------------------------------------
(* Cycles of a flow: FDelay.on_messages as one call, made while the clock and  *)
(* the files stand still; between calls the clock ticks, writers act, and the  *)
(* engine starts the next cycle                                               *)

\* a mutation of append: the message is put at the head of the list
append_front(list, m) == <<m>> \o list

\* list.append(m), lines 54, 67, 78, 92 and 97
append(list, m) == Append(list, m)

\* lines 51-97: the for loop from position k of incoming on, w holding the
\* message objects and the lists the loop appends to
RECURSIVE FDelay_loop(_, _)
FDelay_loop(w, k) ==
    IF k > Len(incoming) THEN w
    ELSE LET i == incoming[k]
             m == w.msg[i]
             f == FileOf(m)
         IN  FDelay_loop(
               IF IsRemove(m)
               THEN [w EXCEPT !.rejected = append(@, i)]
               ELSE IF TooYoung(nowflt - timestr2flt(m.pubTime))
               THEN [w EXCEPT !.msg[i] = MarkNotRetry(@), !.failed = append(@, i)]
               ELSE IF ~ os_path_exists(f)
               THEN [w EXCEPT !.failed = append(@, i)]
               ELSE IF TooYoung(nowflt - files[f].mtime)
               THEN [w EXCEPT !.msg[i] = MarkNotRetry(@), !.failed = append(@, i)]
               ELSE [w EXCEPT !.outgoing = append(@, i)],
               k + 1)

\* the worklist, the message objects, the clock and the files at this moment
Snapshot == [incoming |-> incoming, ok |-> ok, rejected |-> rejected, failed |-> failed,
             msg |-> msg, now |-> now, files |-> files]

\* lines 44-99: the whole call; ran keeps the worklist the call was handed
FDelay_on_messages ==
    /\ pc = "idle"
    /\ IF ran = <<>> THEN TRUE ELSE ran[Len(ran)].stage # "FDelay"
    /\ LET w == FDelay_loop([msg |-> msg, rejected |-> rejected, failed |-> failed,
                             outgoing |-> <<>>], 1)
       IN  /\ msg' = w.msg
           /\ rejected' = w.rejected
           /\ failed' = w.failed
           /\ outgoing' = w.outgoing
           /\ incoming' = w.outgoing
    /\ idx' = Len(incoming) + 1
    /\ ran' = Append(ran, [stage |-> "FDelay", how |-> "returned", before |-> Snapshot])
    /\ UNCHANGED <<now, files, ok, pc>>
    /\ UNCHANGED <<loadVars, getVars, appVars>>

\* the latest on_messages call of the cycle is FDelay's
FDelayDone == pc = "idle" /\ (IF ran = <<>> THEN FALSE ELSE ran[Len(ran)].stage = "FDelay")

\* The process dies before the batch is acknowledged and the source delivers the
\* batch again: the same message objects in the worklist FDelay was handed; ran
\* keeps what the dead process left, with the clock and the files of its call
Redeliver ==
    /\ FDelayDone
    /\ LET before == ran[Len(ran)].before
       IN  /\ incoming' = before.incoming
           /\ ok' = before.ok
           /\ rejected' = before.rejected
           /\ failed' = before.failed
    /\ ran' = <<[stage |-> "crash", how |-> "redelivered",
                 left |-> [Snapshot EXCEPT !.now = ran[Len(ran)].before.now,
                                           !.files = ran[Len(ran)].before.files]]>>
    /\ UNCHANGED <<now, files, msg, pc, idx, outgoing>>
    /\ UNCHANGED <<loadVars, getVars, appVars>>

\* The next cycle: the batch was acknowledged, the messages of failed are
\* presented again, in their order and with their fields as they are
Retry ==
    /\ FDelayDone
    /\ failed # <<>>
    /\ incoming' = failed
    /\ ok' = <<>> /\ rejected' = <<>> /\ failed' = <<>>
    /\ ran' = <<[stage |-> "retry", how |-> "presented"]>>
    /\ UNCHANGED <<now, files, msg, pc, idx, outgoing>>
    /\ UNCHANGED <<loadVars, getVars, appVars>>

\* a message as the retry queue hands it back
FromRetry == [isRetry |-> "True", dop |-> <<"isRetry">>]

\* the messages of a batch of SpecCycle and SpecRetry, all about one file
CycleMessages ==
    { Message("remove", 0, Fresh, "/cfr/in", 500000, NoBlocks) } \cup
    { Message("md5", t, r, "/cfr/in", 500000, NoBlocks) : t \in 0..1, r \in {Fresh, FromRetry} }

\* what an earlier stage of the chain has done with a message of the batch
Earlier == {"none", "ok", "rejected", "failed"}

\* a batch of up to max messages in incoming, and possibly one more message
\* that an earlier stage of the chain has moved out of incoming
CycleInit(max) ==
    /\ now = 0
    /\ files = [f \in Paths |-> NoFile]
    /\ \E n \in 0..max, e \in Earlier :
          /\ \E batch \in [1..n -> CycleMessages] :
                msg = IF e = "none" THEN batch
                      ELSE Append(batch, Message("md5", 0, Fresh, "/cfr/in", 500000, NoBlocks))
          /\ incoming = [i \in 1..n |-> i]
          /\ ok = IF e = "ok" THEN <<n + 1>> ELSE <<>>
          /\ rejected = IF e = "rejected" THEN <<n + 1>> ELSE <<>>
          /\ failed = IF e = "failed" THEN <<n + 1>> ELSE <<>>
    /\ pc = "idle" /\ idx = 1 /\ outgoing = <<>> /\ ran = <<>>
    /\ LET l == FlowLoaded(ListOf(Int_(2)), <<>>) IN heap = l.heap /\ stages = l.stages
    /\ last = NoCall /\ cwd = "."
    /\ flowobj = Flow(<<>>) /\ consumer = Started

InitCycle == CycleInit(MaxMsgs)

InitRetry == CycleInit(MaxSolo)

NextCycle ==
    \/ FDelay_on_messages
    \/ Redeliver
    \/ Retry
    \/ Tick
    \/ \E f \in BatchFiles : WriteFile(f)
    \/ \E f \in BatchFiles : RemoveFile(f)

SpecCycle == InitCycle /\ [][NextCycle]_vars

\* cycles without a crash
NextRetry ==
    \/ FDelay_on_messages
    \/ Retry
    \/ Tick
    \/ \E f \in BatchFiles : WriteFile(f)
    \/ \E f \in BatchFiles : RemoveFile(f)

\* the clock keeps advancing, and every cycle gets its FDelay.on_messages call
\* and is followed by another while messages wait in failed
SpecRetry ==
    /\ InitRetry /\ [][NextRetry]_vars
    /\ WF_vars(Tick) /\ WF_vars(FDelay_on_messages) /\ WF_vars(Retry)

----------------------------------------------------------------------------
(* Report.__init__, flow/report.py lines 19-26 *)

GatherPath == "sarra.plugin.gather.message.Message"
PostPath   == "sarra.plugin.post.message.Message"

MaxLoad == 2     \* stages configured to load before Report.__init__ runs

\* a mutation of Report_init: the post stage is put before the gather stage
Report_init_post_first ==
    /\ flowobj.cls = "Flow"
    /\ flowobj' = [cls  |-> "Report",
                load |-> IF hasattr(heap[FlowRef].attrs, "post_exchange")
                         THEN Append(Append(flowobj.load, PostPath), GatherPath)
                         ELSE Append(flowobj.load, GatherPath)]
    /\ UNCHANGED <<flowVars, loadVars, getVars, consumer>>

\* lines 21-26, run on a flow object that Flow's constructor has set up; self.o
\* is the flow-wide options object
Report_init ==
    /\ flowobj.cls = "Flow"
    /\ flowobj' = [cls  |-> "Report",
                load |-> IF hasattr(heap[FlowRef].attrs, "post_exchange")
                         THEN Append(Append(flowobj.load, GatherPath), PostPath)
                         ELSE Append(flowobj.load, GatherPath)]
    /\ UNCHANGED <<flowVars, loadVars, getVars, consumer>>

\* the flow-wide options of a report flow: post_exchange unset, set, set but empty
ReportAttrs ==
    { [logLevel |-> Str(<<"info">>)],
      [logLevel |-> Str(<<"info">>), post_exchange |-> Str(<<"xreport">>)],
      [logLevel |-> Str(<<"info">>), post_exchange |-> Str(<<>>)] }

\* the stage names a configuration can list
LoadNames == FactoryPaths \cup {GatherPath}

InitReport ==
    /\ now = 0
    /\ files = [f \in Paths |-> NoFile]
    /\ msg = <<>> /\ incoming = <<>>
    /\ ok = <<>> /\ rejected = <<>> /\ failed = <<>>
    /\ pc = "idle" /\ idx = 1 /\ outgoing = <<>> /\ ran = <<>>
    /\ \E a \in ReportAttrs : heap = <<Options(a, FALSE, <<>>)>>
    /\ stages = <<>>
    /\ last = NoCall /\ cwd = "."
    /\ \E n \in 0..MaxLoad : \E load \in [1..n -> LoadNames] : flowobj = Flow(load)
    /\ consumer = Started

NextReport == Report_init

SpecReport == InitReport /\ [][NextReport]_vars

----------------------------------------------------------------------------
(* The example consumer, examples/moth_http_retrieval.py lines 22-67 *)

Wanted == 10     \* the count the loops compare with (lines 24 and 61)

MaxFetch == 3    \* messages in a batch that newMessages returns

\* line 61: the test under which the for loop is left
Break(count) == count > Wanted

\* lines 24-25: the while test passes and newMessages returns a batch of n messages
newMessages(n) ==
    /\ consumer.pc = "while"
    /\ consumer.count < Wanted
    /\ consumer' = [consumer EXCEPT
                      !.messages = [j \in 1..n |-> consumer.fetched + j],
                      !.fetched = @ + n,
                      !.k = 1,
                      !.pc = "for"]
    /\ UNCHANGED <<flowVars, loadVars, getVars, flowobj>>

\* lines 26-58: the data of the next message of the batch is retrieved and parsed,
\* or urlopen or the parser raises and the program ends there
Retrieve ==
    /\ consumer.pc = "for"
    /\ consumer.k <= Len(consumer.messages)
    /\ \/ consumer' = [consumer EXCEPT
                         !.retrieved = @ \cup {consumer.messages[consumer.k]},
                         !.pc = "ack"]
       \/ consumer' = [consumer EXCEPT !.pc = "died"]
    /\ UNCHANGED <<flowVars, loadVars, getVars, flowobj>>

\* lines 59-62: the message is acknowledged and counted; past Wanted the for
\* loop is left for the sleep and the while test
Ack ==
    /\ consumer.pc = "ack"
    /\ consumer' = [consumer EXCEPT
                      !.acked = Append(@, consumer.messages[consumer.k]),
                      !.count = @ + 1,
                      !.k = @ + 1,
                      !.pc = IF Break(consumer.count + 1) THEN "while" ELSE "for"]
    /\ UNCHANGED <<flowVars, loadVars, getVars, flowobj>>

\* line 63: the batch is done, sleep, back to the while test
EndOfBatch ==
    /\ consumer.pc = "for"
    /\ consumer.k > Len(consumer.messages)
    /\ consumer' = [consumer EXCEPT !.pc = "while"]
    /\ UNCHANGED <<flowVars, loadVars, getVars, flowobj>>

\* lines 65-67: the while test fails; cleanup, close and the final print
Finish ==
    /\ consumer.pc = "while"
    /\ ~ (consumer.count < Wanted)
    /\ consumer' = [consumer EXCEPT !.pc = "done"]
    /\ UNCHANGED <<flowVars, loadVars, getVars, flowobj>>

InitConsumer ==
    /\ now = 0
    /\ files = [f \in Paths |-> NoFile]
    /\ msg = <<>> /\ incoming = <<>>
    /\ ok = <<>> /\ rejected = <<>> /\ failed = <<>>
    /\ pc = "idle" /\ idx = 1 /\ outgoing = <<>> /\ ran = <<>>
    /\ heap = <<Options([logLevel |-> Str(<<"info">>)], FALSE, <<>>)>>
    /\ stages = <<>>
    /\ last = NoCall /\ cwd = "."
    /\ flowobj = Flow(<<>>) /\ consumer = Started

NextConsumer ==
    \/ \E n \in 0..MaxFetch : newMessages(n)
    \/ Retrieve
    \/ Ack
    \/ EndOfBatch
    \/ Finish

SpecConsumer == InitConsumer /\ [][NextConsumer]_vars

----------------------------------------------------------------------------
(* Properties of the on_messages chain *)

\* the on_messages calls made on the batch so far
Returned(stage) == \E k \in 1..Len(ran) : ran[k].stage = stage /\ ran[k].how = "returned"

AllReturned == \A k \in 1..Len(ran) : ran[k].how = "returned"

\* the publication age of message i and the modification age of its file, now
PubAge(i) == now - (msg[i].pubTime[1] * 10 + msg[i].pubTime[2])

TheFile(i) == IF msg[i].new_dir = "/cfr/in" THEN files[<<"/cfr/in", msg[i].new_file>>]
              ELSE files[<<".", msg[i].relPath>>]

FileAge(i) == now - TheFile(i).mtime

Delay == heap[stages[1].o].attrs.fdelay.n

\* C1: between the calls of a chain of FDelay.on_messages and
\* ACCEL_WGET.on_messages, taken in any order and each returning normally, every
\* message of the batch is in exactly one of incoming, rejected and failed.
C1_Conservation ==
    (pc = "idle" /\ AllReturned) =>
        \A i \in DOMAIN msg :
            Count(incoming, i) + Count(rejected, i) + Count(failed, i) = 1

\* both stages have run and the batch is spread over the partitions
C1_Witness ==
    /\ pc = "idle" /\ Returned("FDelay") /\ Returned("ACCEL_WGET")
    /\ Len(msg) = 2
    /\ Len(incoming) + Len(failed) = 1
    /\ Len(rejected) = 1

\* C2: when FDelay.on_messages has returned, every 'remove' message of the batch
\* is in rejected and neither in incoming nor in failed, whatever its publication
\* time, the delay and the state of its file.
C2_RemoveRejected ==
    (pc = "idle" /\ Returned("FDelay")) =>
        \A i \in DOMAIN msg :
            msg[i].method = "remove" =>
                /\ i \in Range(rejected)
                /\ i \notin Range(incoming)
                /\ i \notin Range(failed)

\* a 'remove' message younger than the delay, its file missing, was rejected
C2_Witness ==
    /\ pc = "idle" /\ Returned("FDelay")
    /\ \E i \in DOMAIN msg :
          /\ msg[i].method = "remove"
          /\ PubAge(i) < Delay
          /\ ~ TheFile(i).exists
          /\ i \in Range(rejected)

\* the step of FDelay.on_messages that examines the publication time of message i
PubTimeStep(i) ==
    /\ pc = "fd_loop" /\ idx <= Len(incoming) /\ incoming[idx] = i
    /\ msg[i].method # "remove"
    /\ <<pc, idx>>' # <<pc, idx>>

\* the step at which FDelay.on_messages returns
ReturnStep == pc = "fd_loop" /\ pc' = "idle"

\* C3: a non-remove message whose publication age is below the delay when
\* FDelay.on_messages examines it is appended to failed with isRetry False and
\* 'isRetry' in its _deleteOnPost, and the call does not leave it in incoming.
C3_YoungFailed ==
    [][ /\ \A i \in DOMAIN msg :
              (PubTimeStep(i) /\ PubAge(i) < Delay) =>
                  /\ failed' = Append(failed, i)
                  /\ msg'[i].isRetry = "False"
                  /\ "isRetry" \in Range(msg'[i]._deleteOnPost)
                  /\ outgoing' = outgoing
        /\ ReturnStep => Range(incoming') \cap Range(failed') = {}
      ]_vars

\* a fresh message, still too young when the call returned, sits in failed
C3_Witness ==
    /\ pc = "idle" /\ Returned("FDelay")
    /\ \E i \in DOMAIN msg :
          /\ msg[i].method # "remove"
          /\ PubAge(i) < Delay
          /\ i \in Range(failed) /\ i \notin Range(incoming)
          /\ msg[i].isRetry = "False"
          /\ msg[i]._deleteOnPost = <<"isRetry">>

\* C4: when FDelay.on_messages has returned, every message it moved to failed
\* has isRetry False.
C4_FailedNotRetry ==
    (pc = "idle" /\ Returned("FDelay")) =>
        \A i \in Range(failed) : msg[i].isRetry = "False"

\* the step at which FDelay.on_messages decides on non-remove message i
DecideStep(i) ==
    /\ pc \in {"fd_loop", "fd_exists", "fd_stat"}
    /\ idx <= Len(incoming) /\ incoming[idx] = i
    /\ msg[i].method # "remove"
    /\ idx' = idx + 1

\* C5: FDelay.on_messages forwards a non-remove message exactly when its
\* publication age is at least the delay, its file exists and the file's
\* modification age is at least the delay, each as the call reads them; so the
\* messages it leaves in incoming are at least 'delay' seconds old.
C5_ForwardIff ==
    [][ /\ \A i \in DOMAIN msg :
              /\ (DecideStep(i) /\ outgoing' # outgoing) =>
                    /\ outgoing' = Append(outgoing, i)
                    /\ PubAge(i) >= Delay
                    /\ TheFile(i).exists
                    /\ FileAge(i) >= Delay
              /\ (DecideStep(i) /\ outgoing' = outgoing) =>
                    /\ failed' = Append(failed, i)
                    /\ \/ pc = "fd_loop" /\ PubAge(i) < Delay
                       \/ pc = "fd_exists" /\ ~ TheFile(i).exists
                       \/ pc = "fd_stat" /\ FileAge(i) < Delay
              /\ (PubTimeStep(i) /\ PubAge(i) >= Delay) => pc' = "fd_exists"
              /\ (pc = "fd_exists" /\ incoming[idx] = i /\ TheFile(i).exists /\ pc' # pc) =>
                    pc' = "fd_stat"
              /\ (pc = "fd_stat" /\ incoming[idx] = i /\ pc' # pc
                    /\ TheFile(i).exists /\ FileAge(i) >= Delay) =>
                    outgoing' = Append(outgoing, i)
        /\ ReturnStep =>
              /\ incoming' = outgoing
              /\ \A i \in Range(incoming') : msg[i].method # "remove" /\ PubAge(i) >= Delay
      ]_vars

\* a message and its file, both exactly 'delay' seconds old, were forwarded
C5_Witness ==
    /\ pc = "idle" /\ Returned("FDelay")
    /\ \E i \in Range(incoming) :
          /\ msg[i].method # "remove"
          /\ PubAge(i) = Delay
          /\ TheFile(i).exists /\ FileAge(i) = Delay

----------------------------------------------------------------------------
(* Properties of load_library *)

\* the options of stage i have changed in this step
Changed(i) == heap'[stages[i].o] # heap[stages[i].o]

\* C6: no step changes the flow-wide options, loading a stage changes the options
\* of no stage loaded before, and no step changes the options of two stages: what
\* a stage does to its options is seen by no other holder of options.
C6_ConfigIsolation ==
    [][ /\ heap'[FlowRef] = heap[FlowRef]
        /\ \A i \in DOMAIN stages :
              /\ Len(stages') > Len(stages) => ~ Changed(i)
              /\ \A j \in DOMAIN stages : (i # j /\ Changed(i)) => ~ Changed(j)
      ]_vars

\* C7: when the flow options have settings, a stage loaded under name P was handed
\* every option of settings[P] with the value given there, and every other option
\* exactly as the flow-wide options have it, whatever is set for other names.
C7_Overlay ==
    \A i \in DOMAIN stages :
        LET flow == heap[FlowRef]
            P == stages[i].path
            mine == IF P \in DOMAIN flow.settings THEN flow.settings[P] ELSE <<>>
        IN  flow.hasSettings =>
                /\ \A k \in DOMAIN mine :
                      k \in DOMAIN stages[i].got /\ stages[i].got[k] = mine[k]
                /\ \A k \in DOMAIN stages[i].got \ DOMAIN mine :
                      k \in DOMAIN flow.attrs /\ stages[i].got[k] = flow.attrs[k]
                /\ DOMAIN flow.attrs \subseteq DOMAIN stages[i].got

\* a stage whose settings override a flow-wide option, while another name has
\* settings for an option this stage has none for
C7_Witness ==
    \E i \in DOMAIN stages :
        LET flow == heap[FlowRef]
            P == stages[i].path
        IN  /\ flow.hasSettings
            /\ P \in DOMAIN flow.settings
            /\ \E k \in DOMAIN flow.settings[P] :
                  k \in DOMAIN flow.attrs /\ flow.attrs[k] # flow.settings[P][k]
            /\ \E Q \in DOMAIN flow.settings \ {P} :
                  \E k \in DOMAIN flow.settings[Q] :
                      k \notin DOMAIN flow.settings[P] /\ k \notin DOMAIN stages[i].got

----------------------------------------------------------------------------
(* Properties of ACCEL_WGET *)

\* the threshold of the started ACCEL_WGET stage
Threshold == heap[stages[2].o].attrs.accel_wget_threshold.n

\* the declared size of message record m
Declared(m) == IF m.blocks.present THEN m.blocks.size ELSE m.size

\* C8: every do_get call goes to the external command exactly when the declared
\* size of its own message (blocks.size with a blocks descriptor, else size) is at
\* least the threshold, and to the built-in get otherwise, whatever calls were
\* made before it.
C8_Dispatch ==
    last.op = "do_get" =>
        /\ last.path \in {"accel", "builtin"}
        /\ last.path = "accel" <=> Declared(last.m[1]) >= Threshold

\* a message below the threshold went to the built-in get after an accelerated
\* transfer had been made (which left the process in new_dir)
C8_Witness ==
    /\ last.op = "do_get" /\ last.path = "builtin"
    /\ cwd = "/out"
    /\ last.m[1].blocks.present

\* C9: when ACCEL_WGET.on_messages has returned, a message of incoming that is
\* neither 'link' nor 'remove' and whose declared size is at least the threshold
\* has the scheme 'download', every other message has kept its scheme.
C9_SchemeRewrite ==
    (pc = "idle" /\ Returned("ACCEL_WGET")) =>
        \A i \in Range(incoming) :
            IF msg[i].method \notin {"link", "remove"} /\ Declared(msg[i]) >= Threshold
            THEN msg[i].scheme = "download"
            ELSE msg[i].scheme = "http"

\* C10: when the external command has ended with a non-zero status, do_get
\* returns a value, and the value returned (by do_get, or by check_results to its
\* caller) is not the length asked for.
C10_FaultSignalled ==
    (last.op \in {"do_get", "check_results"} /\ last.path = "accel" /\ last.rc # 0) =>
        /\ last.op = "do_get" => last.kind = "returned"
        /\ ~ (last.kind = "returned" /\ last.value = [t |-> "num", n |-> last.length, s |-> <<>>])

----------------------------------------------------------------------------
(* Properties of a faulting FDelay.on_messages *)

\* the latest FDelay.on_messages call on the batch raised
Raised == \E k \in 1..Len(ran) : ran[k].stage = "FDelay" /\ ran[k].how = "raised"

\* C11: in the worklist that a raising FDelay.on_messages leaves behind, every
\* message of the batch is in exactly one of incoming, rejected and failed: none
\* that the call had appended to rejected or failed is still in incoming.
C11_FaultKeepsPartition ==
    (pc = "idle" /\ Raised) =>
        \A i \in DOMAIN msg :
            Count(incoming, i) + Count(rejected, i) + Count(failed, i) = 1

----------------------------------------------------------------------------
(* Properties of FDelay.on_messages over cycles *)

\* the step that is a whole FDelay.on_messages call
FDelayStep == pc = "idle" /\ ran' # ran /\ ran'[Len(ran')].stage = "FDelay"

\* the batch was delivered again after a crash and FDelay.on_messages has run on it
Rerun == FDelayDone /\ Len(ran) = 2 /\ ran[1].stage = "crash"

\* the second run was made with the clock and the files of the first
SameWorld ==
    /\ ran[2].before.now = ran[1].left.now
    /\ ran[2].before.files = ran[1].left.files

\* C12: when FDelay.on_messages has run again on a redelivered batch of the same
\* message objects, with the clock and the files as they were at the first run,
\* the worklist is the one the first run left, every message has the fields the
\* first run left it with, and no _deleteOnPost lists 'isRetry' twice.
C12_Idempotent ==
    (Rerun /\ SameWorld) =>
        /\ incoming = ran[1].left.incoming
        /\ ok = ran[1].left.ok
        /\ rejected = ran[1].left.rejected
        /\ failed = ran[1].left.failed
        /\ msg = ran[1].left.msg
        /\ \A i \in DOMAIN msg : Count(msg[i]._deleteOnPost, "isRetry") <= 1

\* the second run failed, as the first had, a fresh message that was too young
C12_Witness ==
    /\ Rerun /\ SameWorld
    /\ \E i \in Range(failed) :
          /\ i \in Range(ran[2].before.incoming)
          /\ PubAge(i) < Delay
          /\ ran[2].before.msg[i]._deleteOnPost = <<"isRetry">>
    /\ \E i \in Range(rejected) : i \in Range(ran[2].before.incoming)

IsPrefix(s, t) == Len(s) <= Len(t) /\ SubSeq(t, 1, Len(s)) = s

\* the entries of t after its first Len(s)
Added(s, t) == SubSeq(t, Len(s) + 1, Len(t))

Pos(s, x) == CHOOSE k \in 1..Len(s) : s[k] = x

\* the entries of s are entries of base, in the order they have in base
InOrderOf(s, base) ==
    /\ Range(s) \subseteq Range(base)
    /\ \A a, b \in 1..Len(s) : a < b => Pos(base, s[a]) < Pos(base, s[b])

\* C13: a FDelay.on_messages call leaves ok as it is, leaves what rejected and
\* failed held as a prefix of them, adds to rejected and to failed, and leaves in
\* incoming, messages of incoming in the order they had there; with an empty
\* incoming it changes neither the worklist nor a message.
C13_AppendOnly ==
    [][ FDelayStep =>
          /\ ok' = ok
          /\ IsPrefix(rejected, rejected') /\ IsPrefix(failed, failed')
          /\ InOrderOf(Added(rejected, rejected'), incoming)
          /\ InOrderOf(Added(failed, failed'), incoming)
          /\ InOrderOf(incoming', incoming)
          /\ incoming = <<>> =>
                <<incoming, ok, rejected, failed, msg>>' = <<incoming, ok, rejected, failed, msg>>
      ]_vars

\* the call has added two messages to failed, behind the one an earlier stage
\* had put there
C13_Witness ==
    /\ FDelayDone
    /\ ran[Len(ran)].before.failed # <<>>
    /\ Len(failed) >= Len(ran[Len(ran)].before.failed) + 2

\* message i is not a removal, its file exists and was last written early enough
\* for the clock of the model to outlast the delay
Settled(i) ==
    /\ i \in DOMAIN msg /\ msg[i].method # "remove"
    /\ TheFile(i).exists /\ TheFile(i).mtime + Delay <= MaxTime

\* FDelay.on_messages has just moved message i to failed
FailedByFDelay(i) ==
    /\ FDelayDone
    /\ i \in Range(ran[Len(ran)].before.incoming)
    /\ i \in Range(failed)

\* FDelay.on_messages has just left message i in incoming
Passed(i) == FDelayDone /\ i \in Range(incoming)

\* C14: while the clock advances and failed messages are presented again, a
\* non-remove message that FDelay.on_messages moved to failed and whose file from
\* some point on exists and is not written any more is eventually left in
\* incoming by a call.
C14_RetryPasses ==
    \A i \in 1..(MaxSolo + 1) :
        (<>[]Settled(i)) => (FailedByFDelay(i) ~> Passed(i))

\* a fresh message that a call had failed was presented again and passed
C14_Witness ==
    /\ FDelayDone /\ ran[1].stage = "retry"
    /\ \E i \in Range(incoming) :
          /\ msg[i].isRetry = "False"
          /\ Settled(i)

\* C15: a FDelay.on_messages call adds no non-remove message to rejected, in
\* whatever cycle and with whatever marks of earlier failures the message comes,
\* and it moves to failed every non-remove message whose file does not exist.
C15_NoExhaustion ==
    [][ FDelayStep =>
          \A k \in 1..Len(incoming) :
              LET i == incoming[k] IN
              msg[i].method # "remove" =>
                  /\ i \notin Range(Added(rejected, rejected'))
                  /\ ~ TheFile(i).exists =>
                        /\ i \in Range(Added(failed, failed'))
                        /\ i \notin Range(incoming')
      ]_vars

\* a message old enough, failed in an earlier cycle and presented again, is in
\* failed once more because its file is still missing
C15_Witness ==
    /\ FDelayDone /\ ran[1].stage = "retry"
    /\ \E i \in Range(failed) :
          /\ msg[i].method # "remove"
          /\ msg[i].isRetry = "False"
          /\ PubAge(i) >= Delay
          /\ ~ TheFile(i).exists

----------------------------------------------------------------------------
(* Properties of FDelay.__init__ *)

\* the number a configured value stands for: the number itself, the element of a
\* one-element list, the decimal number a text spells
Configured(v) == IF v.t \in {"num", "list_num"} THEN v.n ELSE DigitsVal(v.s)

\* the delay configured in the options a: msg_fdelay before fdelay, 60 with neither
ConfiguredDelay(a) ==
    IF "msg_fdelay" \in DOMAIN a THEN Configured(a.msg_fdelay)
    ELSE IF "fdelay" \in DOMAIN a THEN Configured(a.fdelay)
    ELSE 60

\* C16: the fdelay option of a constructed FDelay stage is a number, and it is the
\* number configured in the options the constructor was handed: msg_fdelay when
\* set, else fdelay, given as a number, a one-element list or a text, else 60.
C16_DelayResolved ==
    \A i \in DOMAIN stages :
        stages[i].cls = "FDelay" =>
            heap[stages[i].o].attrs.fdelay =
                [t |-> "num", n |-> ConfiguredDelay(stages[i].got), s |-> <<>>]

----------------------------------------------------------------------------
(* Properties of ACCEL_WGET.check_results and on_start *)

\* reportback is set and true in the options of the ACCEL_WGET stage
ReportBack ==
    /\ "reportback" \in DOMAIN heap[stages[2].o].attrs
    /\ heap[stages[2].o].attrs.reportback.n # 0

\* C17: a check_results call, made by do_get or directly, reports 499 exactly
\* when the exit status is non-zero and reportback is set and true, reports 201
\* exactly when the exit status is zero and reportback is set and true, and makes
\* no report otherwise: never more than one report for a transfer.
C17_ReportsWhenConfigured ==
    (last.op \in {"do_get", "check_results"} /\ last.path = "accel") =>
        /\ Len(last.reports) <= 1
        /\ (499 \in Range(last.reports)) <=> (last.rc # 0 /\ ReportBack)
        /\ (201 \in Range(last.reports)) <=> (last.rc = 0 /\ ReportBack)
        /\ Range(last.reports) \subseteq {499, 201}

\* a failed transfer was reported
C17_Witness ==
    /\ last.op = "check_results" /\ last.rc # 0
    /\ ReportBack
    /\ last.reports = <<499>>

\* the three options of on_start and their defaults
StartDefaults ==
    [accel_wget_command   |-> [t |-> "str", n |-> 0, s |-> <<"/usr/bin/wget">>],
     accel_wget_threshold |-> [t |-> "num", n |-> 1048576, s |-> <<>>],
     accel_wget_protocol  |-> [t |-> "str", n |-> 0, s |-> <<"http">>]]

\* a step that is an on_start call changing the options of stage i
StartStep(i) == stages' = stages /\ stages[i].cls = "ACCEL_WGET" /\ Changed(i)

\* C18: an on_start call keeps every option that was set (a threshold given as
\* text becomes the number it spells), gives each unset option of the three its
\* default, leaves a numeric threshold, touches no other option, and leaves
\* options that a second on_start call would not change.
C18_StartFillsIn ==
    [][ \A i \in DOMAIN stages :
          StartStep(i) =>
              LET pre  == heap[stages[i].o].attrs
                  post == heap'[stages[i].o].attrs
              IN  /\ DOMAIN post = DOMAIN pre \cup DOMAIN StartDefaults
                  /\ \A k \in DOMAIN pre \ {"accel_wget_threshold"} : post[k] = pre[k]
                  /\ \A k \in DOMAIN StartDefaults \ DOMAIN pre : post[k] = StartDefaults[k]
                  /\ post.accel_wget_threshold.t = "num"
                  /\ "accel_wget_threshold" \in DOMAIN pre =>
                        post.accel_wget_threshold.n =
                            IF pre.accel_wget_threshold.t = "num"
                            THEN pre.accel_wget_threshold.n
                            ELSE chunksize_from_str(pre.accel_wget_threshold)
                  /\ on_start(post, "http") = post
      ]_vars

\* a started stage whose configured command was kept while its threshold and
\* protocol were filled in
C18_Witness ==
    \E i \in DOMAIN stages :
        /\ stages[i].cls = "ACCEL_WGET"
        /\ "accel_wget_command" \in DOMAIN stages[i].got
        /\ "accel_wget_threshold" \notin DOMAIN stages[i].got
        /\ heap[stages[i].o].attrs.accel_wget_command = stages[i].got.accel_wget_command
        /\ heap[stages[i].o].attrs.accel_wget_command # StartDefaults.accel_wget_command
        /\ "accel_wget_threshold" \in DOMAIN heap[stages[i].o].attrs
        /\ heap[stages[i].o].attrs.accel_wget_threshold = StartDefaults.accel_wget_threshold

----------------------------------------------------------------------------
(* Properties of Report.__init__ *)

\* C19: Report.__init__ keeps the stages of plugins['load'] in place, and puts
\* behind them the gather stage alone when post_exchange is not set, the gather
\* stage followed by the post stage when it is set.
C19_LoadOrder ==
    [][ flowobj' # flowobj =>
          /\ IsPrefix(flowobj.load, flowobj'.load)
          /\ Added(flowobj.load, flowobj'.load) =
                IF "post_exchange" \in DOMAIN heap[FlowRef].attrs
                THEN <<"sarra.plugin.gather.message.Message", "sarra.plugin.post.message.Message">>
                ELSE <<"sarra.plugin.gather.message.Message">>
      ]_vars

\* a report flow with post_exchange set, its configured stages first, then gather,
\* then post
C19_Witness ==
    /\ flowobj.cls = "Report"
    /\ Len(flowobj.load) = 4
    /\ flowobj.load[1] = "sarra.flowcb.msg.fdelay.FDelay"
    /\ flowobj.load[3] = "sarra.plugin.gather.message.Message"
    /\ flowobj.load[4] = "sarra.plugin.post.message.Message"

----------------------------------------------------------------------------
(* Properties of the example consumer *)

\* C20: when the consumer has left its loop and printed that it obtained 10
\* product announcements, it has retrieved and acknowledged exactly 10 messages.
C20_ExactlyTen ==
    consumer.pc = "done" =>
        /\ Len(consumer.acked) = 10
        /\ Cardinality(consumer.retrieved) = 10

\* C21: no message is acknowledged twice or before its data was retrieved and
\* parsed, and when the consumer has called cleanup and close every message that
\* newMessages returned has been acknowledged.
C21_AllAcked ==
    /\ \A a, b \in 1..Len(consumer.acked) :
          consumer.acked[a] = consumer.acked[b] => a = b
    /\ Range(consumer.acked) \subseteq consumer.retrieved
    /\ consumer.pc = "done" =>
          \A m \in 1..consumer.fetched : m \in Range(consumer.acked)

====
